---- MODULE Spec2Model ----
(***************************************************************************)
(* Server Launch & Runtime Resolution Engine of mcp-server-manager:        *)
(* the /server/control start handler of gui_bridge.py (command resolution, *)
(* runtime gate, per-server venv, spawn with log, fast-fail window, grace  *)
(* check, signature retry) together with the exit-monitor threads it       *)
(* starts and the child processes it spawns; and, each under a            *)
(* specification of its own, the operations of runtime_manager.py (archive *)
(* extraction, download-URL resolution, provisioning, catalog selection)   *)
(* and the helpers of gui_bridge.py the launch calls.                      *)
(***************************************************************************)
EXTENDS Integers, Sequences, FiniteSets, TLC

(* ------------------------------ bounds --------------------------------- *)
\* Number of child-process slots; a spawn needs a free slot.
MaxProcs == 3
\* Members an archive lists one by one.
MaxMembers == 2
\* Assets a release index lists.
MaxAssets == 2

(* -------------------------- program constants -------------------------- *)
FastFailPolls == 12
RetryFloorMajor == 3
RetryFloorMinor == 10
\* Sleeps of 0.2 s that make up a full second.
PollsPerSecond == 5

(* ------------------------------- values -------------------------------- *)
NoVer  == <<>>
NoMin  == <<>>
NoSpec == <<>>
NoRc   == -1
NoLog  == NoRc
NoWord == [dir |-> "none", name |-> ""]
NoPin  == ""
NoExit == [returncode |-> NoRc, cmd |-> <<>>, log_path |-> NoLog]
NoFile == [hdr |-> 0, kind |-> "none", cmd |-> <<>>, out |-> {}, footers |-> <<>>]

Bare(n)    == [dir |-> "", name |-> n]
UsrBin(n)  == [dir |-> "/usr/bin", name |-> n]
ManagedExe(v) == [dir |-> "rt", name |-> v]
VenvPython == [dir |-> "venv", name |-> "python"]
Script     == [dir |-> "", name |-> "mcp_server.py"]
Blank      == [dir |-> "", name |-> " "]

ExitCodes == {0, 1}
Procs     == 1..MaxProcs

\* Markers a child may leave in its log.
Tb       == "Traceback (most recent call last):"
Operand  == "unsupported operand type(s) for |"
NoneType == "nonetype"
LogKinds == { {}, {Tb}, {Tb, Operand}, {Tb, Operand, NoneType} }

(* --------------------------- the environment --------------------------- *)
Candidates == <<"python3.13", "python3.12", "python3.11", "python3.10", "python3", "python">>
Names == {Candidates[i] : i \in 1..Len(Candidates)} \cup {"python3.9"}

\* What is on PATH: interpreter name -> the version it reports (NoVer: absent).
PathOld == [n \in Names |-> IF n \in {"python3", "python3.9"} THEN <<3, 9, 6>> ELSE NoVer]
PathMid == [n \in Names |-> CASE n = "python3.11" -> <<3, 11, 8>>
                              [] n \in {"python3", "python3.9"} -> <<3, 9, 6>>
                              [] OTHER -> NoVer]
\* python3 is a launcher whose version probe does not yield a parsable version.
Unparsable == <<0>>
PathOdd == [n \in Names |-> IF n = "python3" THEN Unparsable ELSE NoVer]
PathWorlds == {PathOld, PathMid, PathOdd}

\* requires-python strings, as their comma-separated clauses.
Clause(op, major, minor) == [op |-> op, major |-> major, minor |-> minor]
Specs == { NoSpec,
           <<Clause(">=", 3, 10)>>,
           <<Clause("<", 4, 0), Clause(">=", 3, 12)>> }

\* start_cmd strings, as their tokens.
StartCmds == { <<>>, <<Blank>>, <<Bare("python3"), Script>> }

\* Directory listings of <runtime_home>/python (sorted by name) and pins.
ManagedWorlds == { <<>>, <<"3.9.18">>, <<"3.12.1", "3.9.18">> }
Pins == {NoPin, "3.9.18"}

\* Version of the interpreter of a .venv that already exists (NoVer: no .venv).
ExistingVenvs == {NoVer, <<3, 9, 6>>}

VARIABLES
  onPath,        \* PATH contents
  hasLogger,     \* session_logger is not None
  pc,            \* position of the request thread in server_control
  found,         \* the request's id names a server of the inventory
  action,        \* the request's action
  cmd,           \* start_cmd / stop_cmd of the target
  argv,          \* resolved argv
  requires,      \* requires_python
  pyproject,     \* <server path>/pyproject.toml exists
  entrypoint,    \* content of <server path>/mcp_server.py: "legacy" | "stub" | "repaired"
  venvVer,       \* version of .venv/bin/python
  noneSat,       \* observation at the gate: no known interpreter satisfies min_py
  procs,         \* child processes, by spawn order
  mon,           \* position of each process's _monitor_exit thread
  nspawn,        \* number of Popen calls that returned a process
  exitWrites,    \* per process: writes of pm.last_server_exit by its monitor
  footerWrites,  \* per process: exit footers appended by its monitor
  files,         \* server_logs/<s_id>_<stamp>.log, by stamp
  clock,         \* current wall-clock second
  last_server_cmd, last_server_start, last_server_exit,
  stage,         \* "first" | "ff" (fast-fail retry) | "gr" (grace retry)
  polls,         \* iterations done of the current poll loop
  rc, rc2,       \* poll results
  proc, proc2,   \* handles of the first and of the retry process
  tail,          \* the log tail last read
  inspections,   \* grace-period log inspections made (lines 2251-2255)
  log_path, log_path2, retry_argv,
  resp           \* the response returned

VARIABLES
  archive,        \* the tar archive handed to the extractor
  disk,           \* paths the extraction has created
  extract_result  \* "" (not called) | "ok" | "raised"

VARIABLES
  home,           \* <runtime_home>/python: per directory name, what the directory holds
  ensure_ret,     \* the last call of ensure_managed_python: arguments and outcome
  choose_min,     \* (min_major, min_minor) of a call of choose_managed_python_at_least
  chosen,         \* what that call returned
  assets,         \* the assets of the release index, in index order
  want_version,   \* the version a download URL is resolved for
  resolved,       \* outcome of resolve_standalone_python_url
  find_min,       \* min_version of a call of _find_python_at_least
  find_exclude,   \* its exclude argument
  find_ret,       \* what it returned
  venv_call,      \* a call of _ensure_server_venv: what it meets
  venv_ret        \* what it returned

extractVars == <<archive, disk, extract_result>>
runtimeVars == <<home, ensure_ret, choose_min, chosen>>
resolveVars == <<assets, want_version, resolved>>
findVars    == <<find_min, find_exclude, find_ret>>
venvVars    == <<venv_call, venv_ret>>
toolVars    == <<extractVars, runtimeVars, resolveVars, findVars, venvVars>>

vars == <<toolVars, onPath, hasLogger, pc, found, action, cmd, argv, requires, pyproject, entrypoint, venvVer, noneSat,
          procs, mon, nspawn, exitWrites, footerWrites, files, clock,
          last_server_cmd, last_server_start, last_server_exit,
          stage, polls, rc, rc2, proc, proc2, tail, inspections, log_path, log_path2,
          retry_argv, resp>>

\* What a launch request leaves alone: PATH, the session logger, and the state
\* of the operations that are not part of a launch request.
envVars   == <<onPath, hasLogger, toolVars>>
planVars  == <<found, action, cmd, argv, requires, pyproject, entrypoint, venvVer, noneSat>>
procVars  == <<procs, mon, nspawn, exitWrites, footerWrites>>
mapVars   == <<last_server_cmd, last_server_start, last_server_exit>>
loopVars  == <<stage, polls, rc, rc2, proc, proc2, tail, inspections, log_path, log_path2,
               retry_argv>>

(* ------------------------------ helpers -------------------------------- *)
\* Tuple comparison (a[1], a[2]) < (b[1], b[2]).
VerLess2(a, b) == a[1] < b[1] \/ (a[1] = b[1] /\ a[2] < b[2])

\* _min_python_from_spec: the first ">=X.Y" of the spec.
RECURSIVE FirstGe(_, _)
FirstGe(spec, i) ==
  IF i > Len(spec) THEN NoMin
  ELSE IF spec[i].op = ">=" THEN <<spec[i].major, spec[i].minor>>
  ELSE FirstGe(spec, i + 1)

MinPythonFromSpec(spec) == IF spec = NoSpec THEN NoMin ELSE FirstGe(spec, 1)

\* Variant: whitespace is kept as a token.
SplitKeepBlank(c) == c

\* shlex.split
Split(c) == SelectSeq(c, LAMBDA t : t # Blank)

\* shutil.which
Which(n) == IF n \in Names /\ onPath[n] # NoVer THEN UsrBin(n) ELSE NoWord

\* os.path.abspath: a bare name is taken relative to the working directory.
Abspath(w) == IF w.dir = "" THEN [w EXCEPT !.dir = "cwd"] ELSE w

\* The executable a word of argv runs (exec lookup), NoWord when there is none.
Executable(w) ==
  CASE w.dir = ""         -> Which(w.name)
    [] w.dir = "/usr/bin" -> Which(w.name)
    [] w.dir = "venv"     -> IF venvVer # NoVer THEN w ELSE NoWord
    [] w.dir = "rt"       -> w
    [] OTHER -> NoWord

\* str.split(".") followed by int() of the parts, for the version names used.
VersionParts(v) ==
  CASE v = "3.12.1" -> <<3, 12, 1>>
    [] v = "3.9.18" -> <<3, 9, 18>>
    [] v = "3.11"   -> <<3, 11>>
    [] v = "3.11.8" -> <<3, 11, 8>>
    [] v = "3.12"   -> <<3, 12>>
    [] OTHER        -> <<>>

\* runtime_manager._version_tuple
VersionTuple(v) ==
  LET parts == VersionParts(v) IN
  IF Len(parts) < 2 THEN NoVer
  ELSE <<parts[1], parts[2], IF Len(parts) >= 3 THEN parts[3] ELSE 0>>

\* The release a managed runtime directory holds: the directory is named by the
\* version string ensure was called with, and "3.12" got the newest 3.12 asset.
Release(v) == IF v = "3.12" THEN <<3, 12, 7>> ELSE VersionParts(v)

\* What the interpreter prints for its version, as the parts between the dots.
Printed(exe) ==
  CASE exe.dir = "/usr/bin" -> onPath[exe.name]
    [] exe.dir = "rt"       -> Release(exe.name)
    [] exe.dir = "venv"     -> venvVer
    [] OTHER                -> <<>>

\* _python_version_tuple: run the interpreter and parse what it prints.
PythonVersionTuple(w) ==
  LET exe == Executable(w) IN
  IF exe = NoWord THEN NoVer
  ELSE LET parts == Printed(exe) IN
       IF Len(parts) < 2 THEN NoVer
       ELSE <<parts[1], parts[2], IF Len(parts) > 2 THEN parts[3] ELSE 0>>

\* _find_python_at_least
RECURSIVE FindFrom(_, _, _)
FindFrom(i, min_version, exclude) ==
  IF i > Len(Candidates) THEN NoWord
  ELSE LET exe == Which(Candidates[i]) IN
       IF exe = NoWord THEN FindFrom(i + 1, min_version, exclude)
       ELSE IF exclude # NoWord /\ Abspath(exe) = Abspath(exclude)
            THEN FindFrom(i + 1, min_version, exclude)
       ELSE LET ver == PythonVersionTuple(exe) IN
            IF ver = NoVer THEN FindFrom(i + 1, min_version, exclude)
            ELSE IF ~VerLess2(ver, min_version) THEN exe
            ELSE FindFrom(i + 1, min_version, exclude)

FindPythonAtLeast(min_version, exclude) == FindFrom(1, min_version, exclude)

\* list_managed_pythons / choose_managed_python_at_least
RECURSIVE ChooseFrom(_, _, _, _)
ChooseFrom(listing, i, min, best) ==
  IF i > Len(listing) THEN best
  ELSE LET vt == VersionTuple(listing[i]) IN
       IF vt = NoVer \/ VerLess2(vt, min) THEN ChooseFrom(listing, i + 1, min, best)
       ELSE IF best = NoPin THEN ChooseFrom(listing, i + 1, min, listing[i])
       ELSE LET bvt == VersionTuple(best) IN
            IF bvt # NoVer /\ (VerLess2(bvt, vt) \/ (bvt[1] = vt[1] /\ bvt[2] = vt[2] /\ bvt[3] < vt[3]))
            THEN ChooseFrom(listing, i + 1, min, listing[i])
            ELSE ChooseFrom(listing, i + 1, min, best)

ChooseManagedPythonAtLeast(listing, min) == ChooseFrom(listing, 1, min, NoPin)

\* The exact pin of the descriptor, when that version is installed.
RECURSIVE PinnedFrom(_, _, _)
PinnedFrom(listing, i, pin) ==
  IF i > Len(listing) THEN NoPin
  ELSE IF listing[i] = pin THEN listing[i]
  ELSE PinnedFrom(listing, i + 1, pin)

ManagedFor(listing, pin, min) ==
  LET pinned == IF pin # NoPin THEN PinnedFrom(listing, 1, pin) ELSE NoPin IN
  IF pinned # NoPin THEN pinned ELSE ChooseManagedPythonAtLeast(listing, min)

\* Variant: the operand message alone is taken for the signature.
LooksLikeUnionErrorOperandOnly(log_tail) == Operand \in log_tail

\* _looks_like_python_lt_310_union_error
LooksLikeUnionError(log_tail) == Operand \in log_tail /\ NoneType \in log_tail

\* Does the interpreter behind a word measure at least min?
Satisfies(w, min) ==
  LET ver == PythonVersionTuple(w) IN ver # NoVer /\ ~VerLess2(ver, min)

Response(status, success, error) ==
  [status |-> status, success |-> success, error |-> error, returncode |-> NoRc,
   log_path |-> NoLog, resolved_cmd |-> <<>>, retry |-> FALSE, first_log_path |-> NoLog,
   requires_python |-> NoSpec, python |-> NoVer]

NoResp == Response(0, FALSE, "")

(* ------------------------------- Init ---------------------------------- *)
\* No extraction has been called.
ExtractIdle == archive = [members |-> <<>>, more |-> 0] /\ disk = {} /\ extract_result = ""

\* Directory names under <runtime_home>/python.
RuntimeNames == {"3.11.8", "3.12", "3.12.1", "3.9.18"}

Absent == [dir |-> FALSE, payload |-> FALSE, link |-> FALSE, meta |-> FALSE]
NoCall == [version |-> NoPin, url |-> FALSE, force |-> FALSE, outcome |-> "",
           failed |-> "", python |-> NoWord, network |-> 0]
NotChosen == "-"

\* An empty runtime home, and no call made.
RuntimeIdle ==
  /\ home = [v \in RuntimeNames |-> Absent]
  /\ ensure_ret = NoCall
  /\ choose_min = NoMin
  /\ chosen = NotChosen

NoUrl == [state |-> "", asset |-> 0]

\* No URL resolution has been called.
ResolveIdle == assets = <<>> /\ want_version = NoPin /\ resolved = NoUrl

Pending == [dir |-> "?", name |-> ""]

\* No interpreter search has been called.
FindIdle == find_min = NoMin /\ find_exclude = NoWord /\ find_ret = Pending

NoVenvCall == [exists |-> FALSE, create_rc |-> 0, pip_rc |-> 0, raises |-> ""]
NoVenvRet  == [python |-> Pending, setup_log |-> FALSE]

\* No venv setup has been called.
VenvIdle == venv_call = NoVenvCall /\ venv_ret = NoVenvRet

ToolsIdle == ExtractIdle /\ RuntimeIdle /\ ResolveIdle /\ FindIdle /\ VenvIdle

\* No request has been received.
RequestIdle ==
  /\ pc = "idle"
  /\ found = FALSE
  /\ action = ""
  /\ cmd = <<>>
  /\ argv = <<>>
  /\ requires = NoSpec
  /\ pyproject = FALSE
  /\ venvVer = NoVer
  /\ noneSat = FALSE
  /\ procs = [p \in Procs |-> [st |-> "none", rc |-> NoRc, argv |-> <<>>, log |-> NoLog]]
  /\ mon = [p \in Procs |-> "none"]
  /\ nspawn = 0
  /\ exitWrites = [p \in Procs |-> 0]
  /\ footerWrites = [p \in Procs |-> 0]
  /\ files = [s \in 0..MaxProcs |-> NoFile]
  /\ clock = 0
  /\ last_server_cmd = <<>>
  /\ last_server_start = NoLog
  /\ last_server_exit = NoExit
  /\ stage = "first"
  /\ polls = 0
  /\ rc = NoRc
  /\ rc2 = NoRc
  /\ proc = 0
  /\ proc2 = 0
  /\ tail = {}
  /\ inspections = 0
  /\ log_path = NoLog
  /\ log_path2 = NoLog
  /\ retry_argv = <<>>
  /\ resp = NoResp

Init ==
  /\ onPath \in PathWorlds
  /\ hasLogger \in BOOLEAN
  /\ entrypoint \in {"legacy", "stub"}
  /\ RequestIdle
  /\ ToolsIdle

(* ------------------------- the request thread -------------------------- *)
Done(r) == /\ pc' = "done" /\ resp' = r

\* _write_action_log: <s_id>_<stamp>.log opened "w".
WriteActionLog(action_name, c) ==
  files' = [files EXCEPT ![clock] =
              [hdr |-> 0, kind |-> action_name, cmd |-> c, out |-> {}, footers |-> <<>>]]

\* Lines 1967-2008: inventory lookup, command selection, the stop branch.
Lookup ==
  /\ pc = "idle"
  /\ \E f \in BOOLEAN, a \in {"start", "stop"}, c \in StartCmds :
       /\ found' = f
       /\ action' = a
       /\ cmd' = IF f THEN c ELSE <<>>
       /\ IF ~f THEN
            /\ Done(Response(404, FALSE, "Server not found"))
            /\ UNCHANGED files
          ELSE IF c = <<>> THEN
            /\ Done(Response(400, FALSE, "No command defined"))
            /\ UNCHANGED files
          ELSE IF a # "start" THEN
            /\ WriteActionLog("stop", c)
            /\ Done([Response(200, TRUE, "") EXCEPT !.log_path = clock])
          ELSE
            /\ pc' = "resolve"
            /\ UNCHANGED <<resp, files>>
  /\ UNCHANGED <<envVars, argv, requires, pyproject, entrypoint, venvVer, noneSat, procVars,
                 clock, mapVars, loopVars>>

\* _resolve_server_run and the "no argv" return (lines 2010-2012).
ResolveServerRun ==
  /\ pc = "resolve"
  /\ \E hasProject \in BOOLEAN, req \in Specs :
       /\ (req # NoSpec => hasProject)
       /\ LET a == Split(cmd) IN
          IF a = <<>> THEN
            /\ Done(Response(400, FALSE, "No start command resolved"))
            /\ UNCHANGED <<argv, requires, pyproject>>
          ELSE
            /\ argv' = a
            /\ requires' = req
            /\ pyproject' = hasProject
            /\ pc' = "repair"
            /\ UNCHANGED resp
  /\ UNCHANGED <<envVars, found, action, cmd, entrypoint, venvVer, noneSat, procVars, files, clock, mapVars,
                 loopVars>>

\* _forged_entrypoint_needs_repair: the file holds a legacy banner or does not compile.
ForgedEntrypointNeedsRepair(content) == content = "legacy"

\* Lines 2016-2028: auto-repair of a forged stub entrypoint named by argv[1].
\* _repair_forged_entrypoint (lines 558-700) overwrites the file with the
\* "Baseline MCP Server (Repaired)" text.
RepairEntrypoint ==
  /\ pc = "repair"
  /\ entrypoint' = IF Len(argv) >= 2 /\ argv[2].name = "mcp_server.py"
                      /\ ForgedEntrypointNeedsRepair(entrypoint)
                   THEN "repaired" ELSE entrypoint
  /\ pc' = "gate"
  /\ UNCHANGED <<envVars, found, action, cmd, argv, requires, pyproject, venvVer, noneSat, procVars, files,
                 clock, mapVars, loopVars, resp>>

\* No interpreter known at the gate (argv[0], PATH candidates, managed runtimes)
\* measures at least min.
NoneSatisfies(listing, min) ==
  /\ ~Satisfies(argv[1], min)
  /\ \A i \in 1..Len(Candidates) :
       Which(Candidates[i]) = NoWord \/ ~Satisfies(Which(Candidates[i]), min)
  /\ \A i \in 1..Len(listing) : ~Satisfies(ManagedExe(listing[i]), min)

Blocked(ver) ==
  [Response(409, FALSE, "Runtime mismatch: Python version too old") EXCEPT
     !.requires_python = requires, !.python = ver, !.resolved_cmd = argv,
     !.log_path = clock]

\* Runtime gate (lines 2030-2090).
RuntimeGate ==
  /\ pc = "gate"
  /\ \E listing \in ManagedWorlds, pin \in Pins :
       LET min_py == MinPythonFromSpec(requires)
           ver    == PythonVersionTuple(argv[1])
       IN
       /\ noneSat' = (min_py # NoMin /\ NoneSatisfies(listing, min_py))
       /\ IF min_py # NoMin /\ ver # NoVer /\ VerLess2(ver, min_py) THEN
            LET fallback == FindPythonAtLeast(min_py, argv[1]) IN
            IF fallback # NoWord THEN
              /\ argv' = <<fallback>> \o Tail(argv)
              /\ pc' = "venv"
              /\ UNCHANGED <<resp, files>>
            ELSE
              LET managed == ManagedFor(listing, pin, min_py) IN
              IF managed # NoPin THEN
                /\ argv' = <<ManagedExe(managed)>> \o Tail(argv)
                /\ pc' = "venv"
                /\ UNCHANGED <<resp, files>>
              ELSE
                /\ WriteActionLog("start_failed", argv)
                /\ Done(Blocked(ver))
                /\ UNCHANGED argv
          ELSE
            /\ pc' = "venv"
            /\ UNCHANGED <<argv, resp, files>>
  /\ UNCHANGED <<envVars, found, action, cmd, requires, pyproject, entrypoint, venvVer, procVars, clock,
                 mapVars, loopVars>>

\* _ensure_server_venv and the substitution of its interpreter (lines 2096-2106).
EnsureServerVenv ==
  /\ pc = "venv"
  /\ pc' = "spawn"
  /\ IF ~pyproject THEN UNCHANGED <<argv, venvVer>>
     ELSE \E existing \in ExistingVenvs, createOk \in BOOLEAN :
            LET base == PythonVersionTuple(argv[1]) IN
            IF existing # NoVer THEN
              \* .venv exists: its interpreter is returned whatever pip answers
              /\ venvVer' = existing
              /\ argv' = <<VenvPython>> \o Tail(argv)
            ELSE IF createOk /\ base # NoVer THEN
              /\ venvVer' = base
              /\ argv' = <<VenvPython>> \o Tail(argv)
            ELSE
              UNCHANGED <<argv, venvVer>>
  /\ UNCHANGED <<envVars, found, action, cmd, requires, pyproject, entrypoint, noneSat, procVars, files,
                 clock, mapVars, loopVars, resp>>

SpawnOutcomes == {"ok", "open_fails", "popen_fails"}

\* _spawn_with_log (lines 2108-2174): open the log "w", write the header, Popen,
\* start the monitor thread.  open or Popen may raise.
SpawnWithLog(spawn_argv, lp, outcome) ==
  /\ outcome = "ok" => (Executable(spawn_argv[1]) # NoWord /\ nspawn < MaxProcs)
  /\ files' = IF outcome = "open_fails" THEN files
              ELSE [files EXCEPT ![lp] =
                      [hdr |-> nspawn + 1, kind |-> "start", cmd |-> spawn_argv,
                       out |-> {}, footers |-> <<>>]]
  /\ IF outcome = "ok" THEN
       /\ nspawn' = nspawn + 1
       /\ procs' = [procs EXCEPT ![nspawn + 1] =
                      [st |-> "running", rc |-> NoRc, argv |-> spawn_argv, log |-> lp]]
       /\ mon' = [mon EXCEPT ![nspawn + 1] = "wait"]
     ELSE UNCHANGED <<nspawn, procs, mon>>
  /\ UNCHANGED <<exitWrites, footerWrites>>

\* Line 2303.
Started == [Response(200, TRUE, "") EXCEPT !.log_path = log_path, !.resolved_cmd = argv]

\* Line 2307.
ControlFailed == Response(500, FALSE, "exception")

\* Line 2176.
SpawnFirst ==
  /\ pc = "spawn"
  /\ \E outcome \in SpawnOutcomes :
       /\ SpawnWithLog(argv, clock, outcome)
       /\ IF outcome = "ok" THEN
            /\ proc' = nspawn + 1
            /\ log_path' = clock
            /\ pc' = "rec_cmd"
            /\ UNCHANGED resp
          ELSE
            /\ Done(ControlFailed)
            /\ UNCHANGED <<proc, log_path>>
  /\ UNCHANGED <<envVars, planVars, clock, mapVars, stage, polls, rc, rc2, proc2, tail,
                 inspections, log_path2, retry_argv>>

\* Lines 2177, 2212, 2261: pm.last_server_cmd[s_id] = ...
RecordCmd ==
  /\ pc = "rec_cmd"
  /\ last_server_cmd' = IF stage = "first" THEN argv ELSE retry_argv
  /\ pc' = "rec_start"
  /\ UNCHANGED <<envVars, planVars, procVars, files, clock, last_server_start,
                 last_server_exit, loopVars, resp>>

\* Lines 2178, 2213, 2262: pm.last_server_start[s_id] = time.time()
RecordStart ==
  /\ pc = "rec_start"
  /\ last_server_start' = clock
  /\ polls' = 0
  /\ pc' = "poll"
  /\ UNCHANGED <<envVars, planVars, procVars, files, clock, last_server_cmd,
                 last_server_exit, stage, rc, rc2, proc, proc2, tail, inspections, log_path,
                 log_path2, retry_argv, resp>>

\* proc.poll()
PollOf(p) == IF procs[p].st = "exited" THEN procs[p].rc ELSE NoRc

\* Variant: a fast-fail loop with no iteration limit, which ends only when the
\* process is seen exited.
PollUntilExit ==
  /\ pc = "poll"
  /\ polls' = polls + 1
  /\ LET seen == PollOf(IF stage = "first" THEN proc ELSE proc2) IN
     /\ IF stage = "first" THEN rc' = seen /\ UNCHANGED rc2
                           ELSE rc2' = seen /\ UNCHANGED rc
     /\ pc' = IF seen # NoRc THEN "polled" ELSE "poll"
  /\ UNCHANGED <<envVars, planVars, procVars, files, clock, mapVars, stage, proc, proc2,
                 tail, inspections, log_path, log_path2, retry_argv, resp>>

\* One iteration of a fast-fail loop (lines 2196-2200, 2216-2220, 2264-2268).
Poll ==
  /\ pc = "poll"
  /\ polls < FastFailPolls
  /\ polls' = polls + 1
  /\ LET seen == PollOf(IF stage = "first" THEN proc ELSE proc2) IN
     /\ IF stage = "first" THEN rc' = seen /\ UNCHANGED rc2
                           ELSE rc2' = seen /\ UNCHANGED rc
     /\ pc' = IF seen # NoRc \/ polls + 1 = FastFailPolls THEN "polled" ELSE "poll"
  /\ UNCHANGED <<envVars, planVars, procVars, files, clock, mapVars, stage, proc, proc2,
                 tail, inspections, log_path, log_path2, retry_argv, resp>>

\* Line 2247.
FailImmediate ==
  [Response(500, FALSE, "Server exited immediately after start") EXCEPT
     !.returncode = rc, !.log_path = log_path, !.resolved_cmd = argv]

\* Line 2294.
FailTraceback ==
  [Response(500, FALSE, "Server produced traceback during start") EXCEPT
     !.log_path = log_path, !.resolved_cmd = argv]

\* Lines 2224-2231, 2272-2279.
RetryStarted ==
  [Response(200, TRUE, "") EXCEPT
     !.log_path = log_path2, !.resolved_cmd = retry_argv, !.retry = TRUE,
     !.first_log_path = log_path]

\* Lines 2234-2243, 2282-2291.
RetryFailed(error) ==
  [Response(500, FALSE, error) EXCEPT
     !.returncode = rc2, !.log_path = log_path2, !.resolved_cmd = retry_argv,
     !.retry = TRUE, !.first_log_path = log_path]

\* log_path.read_text(...)[-8000:], which may raise.
ReadText(lp, readOk) == IF readOk THEN files[lp].out ELSE {}

\* Lines 2201-2208 and 2245-2247: the first process was seen exited.
FastFailCheck ==
  /\ pc = "polled"
  /\ stage = "first"
  /\ rc # NoRc
  /\ \E readOk \in BOOLEAN :
       /\ tail' = ReadText(log_path, readOk)
       /\ IF LooksLikeUnionError(tail') THEN
            /\ pc' = "retry"
            /\ stage' = "ff"
            /\ UNCHANGED resp
          ELSE
            /\ Done(FailImmediate)
            /\ UNCHANGED stage
  /\ UNCHANGED <<envVars, planVars, procVars, files, clock, mapVars, polls, rc, rc2, proc,
                 proc2, inspections, log_path, log_path2, retry_argv>>

\* Line 2201, rc is None: on to the grace-period check.
SurvivedFastFail ==
  /\ pc = "polled"
  /\ stage = "first"
  /\ rc = NoRc
  /\ pc' = "grace"
  /\ UNCHANGED <<envVars, planVars, procVars, files, clock, mapVars, loopVars, resp>>

\* Lines 2251-2256 and 2292-2303: sleep 1.5 s, read the tail, look for a traceback.
GraceCheck ==
  /\ pc = "grace"
  /\ inspections' = inspections + 1
  /\ \E readOk \in BOOLEAN :
       /\ tail' = ReadText(log_path, readOk)
       /\ IF ~readOk THEN
            \* read_text raised: swallowed at line 2295, then line 2303
            /\ Done(Started)
            /\ UNCHANGED stage
          ELSE IF Tb \in tail' THEN
            IF LooksLikeUnionError(tail') THEN
              /\ pc' = "retry"
              /\ stage' = "gr"
              /\ UNCHANGED resp
            ELSE
              /\ Done(FailTraceback)
              /\ UNCHANGED stage
          ELSE
            /\ Done(Started)
            /\ UNCHANGED stage
  /\ UNCHANGED <<envVars, planVars, procVars, files, clock, mapVars, polls, rc, rc2, proc,
                 proc2, log_path, log_path2, retry_argv>>

\* Seconds the retry's log stamp may show: the same second as the first log only
\* when less than a second of sleeps has passed since the first spawn.
RetryStamps ==
  IF stage = "ff" /\ polls < PollsPerSecond THEN {clock, clock + 1} ELSE {clock + 1}

\* The response when no retry is possible or its result is not returned
\* (fall-through to line 2245 or to line 2292).
FallThrough == IF stage = "ff" THEN FailImmediate ELSE FailTraceback

\* _retry_with_newer_python (lines 2180-2189) and its call sites (2209-2211, 2258-2260).
RetryWithNewerPython ==
  /\ pc = "retry"
  /\ LET fallback == FindPythonAtLeast(<<RetryFloorMajor, RetryFloorMinor>>, argv[1]) IN
     IF fallback = NoWord THEN
       /\ Done(FallThrough)
       /\ UNCHANGED <<procVars, files, clock, proc2, log_path2, retry_argv>>
     ELSE
       \E outcome \in SpawnOutcomes, lp \in RetryStamps :
         /\ clock' = lp
         /\ SpawnWithLog(<<fallback>> \o Tail(argv), lp, outcome)
         /\ IF outcome = "ok" THEN
              /\ proc2' = nspawn + 1
              /\ log_path2' = lp
              /\ retry_argv' = <<fallback>> \o Tail(argv)
              /\ pc' = "rec_cmd"
              /\ UNCHANGED resp
            ELSE
              \* the exception is swallowed at line 2297 (2295), then line 2303
              /\ Done(Started)
              /\ UNCHANGED <<proc2, log_path2, retry_argv>>
  /\ UNCHANGED <<envVars, planVars, mapVars, stage, polls, rc, rc2, proc, tail, inspections,
                 log_path>>

\* Variant: a crashed fast-fail retry, instead of returning, goes on to the
\* grace-period check.
RetryResultGoesOn ==
  /\ pc = "polled"
  /\ stage # "first"
  /\ IF rc2 # NoRc /\ stage = "ff"
     THEN pc' = "grace" /\ UNCHANGED resp
     ELSE Done(IF rc2 = NoRc THEN RetryStarted ELSE FallThrough)
  /\ UNCHANGED <<envVars, planVars, procVars, files, clock, mapVars, loopVars>>

\* Lines 2221-2243 and 2269-2291: the outcome of the retry's fast-fail loop.
RetryResult ==
  /\ pc = "polled"
  /\ stage # "first"
  /\ Done(IF rc2 = NoRc THEN RetryStarted
          ELSE IF hasLogger THEN
            RetryFailed(IF stage = "ff"
                        THEN "Server exited immediately after start (python retry attempted)"
                        ELSE "Server produced traceback during start (python retry attempted)")
          ELSE FallThrough)
  /\ UNCHANGED <<envVars, planVars, procVars, files, clock, mapVars, loopVars>>

(* ------------------------- the child processes ------------------------- *)
\* A running child writes to its stdout/stderr, which is its log file.  Only the
\* log of the first process is ever read (lines 2205, 2255); what a retry process
\* prints is not tracked.
ProcWrite(p) ==
  /\ p = proc
  /\ procs[p].st = "running"
  /\ files[procs[p].log].out = {}
  /\ \E k \in LogKinds \ {{}} :
       files' = [files EXCEPT ![procs[p].log].out = k]
  /\ UNCHANGED <<envVars, pc, planVars, procVars, clock, mapVars, loopVars, resp>>

ProcExit(p) ==
  /\ procs[p].st = "running"
  /\ \E c \in ExitCodes :
       procs' = [procs EXCEPT ![p].st = "exited", ![p].rc = c]
  /\ UNCHANGED <<envVars, pc, planVars, mon, nspawn, exitWrites, footerWrites, files, clock,
                 mapVars, loopVars, resp>>

(* ------------------------- the monitor threads ------------------------- *)
\* Variant: the monitor does not block until the process has exited.
MonitorWaitNoBlock(p) ==
  /\ mon[p] = "wait"
  /\ mon' = [mon EXCEPT ![p] = "exit_rec"]
  /\ UNCHANGED <<envVars, pc, planVars, procs, nspawn, exitWrites, footerWrites, files,
                 clock, mapVars, loopVars, resp>>

\* Line 2137: proc.wait() returns.
MonitorWait(p) ==
  /\ mon[p] = "wait"
  /\ procs[p].st = "exited"
  /\ mon' = [mon EXCEPT ![p] = "exit_rec"]
  /\ UNCHANGED <<envVars, pc, planVars, procs, nspawn, exitWrites, footerWrites, files,
                 clock, mapVars, loopVars, resp>>

\* Lines 2140-2146: pm.last_server_exit[s_id] = meta
MonitorRecord(p) ==
  /\ mon[p] = "exit_rec"
  /\ last_server_exit' = [returncode |-> procs[p].rc, cmd |-> procs[p].argv,
                          log_path |-> procs[p].log]
  /\ exitWrites' = [exitWrites EXCEPT ![p] = @ + 1]
  /\ mon' = [mon EXCEPT ![p] = "start_read"]
  /\ UNCHANGED <<envVars, pc, planVars, procs, nspawn, footerWrites, files, clock,
                 last_server_cmd, last_server_start, loopVars, resp>>

\* Lines 2149-2162: pm.last_server_start.get(s_id), then the session log entry.
MonitorReadStart(p) ==
  /\ mon[p] = "start_read"
  /\ mon' = [mon EXCEPT ![p] = "footer"]
  /\ UNCHANGED <<envVars, pc, planVars, procs, nspawn, exitWrites, footerWrites, files,
                 clock, mapVars, loopVars, resp>>

\* Lines 2163-2170: append the exit footer to the log.
MonitorFooter(p) ==
  /\ mon[p] = "footer"
  /\ files' = [files EXCEPT ![procs[p].log].footers = Append(@, p)]
  /\ footerWrites' = [footerWrites EXCEPT ![p] = @ + 1]
  /\ mon' = [mon EXCEPT ![p] = "done"]
  /\ UNCHANGED <<envVars, pc, planVars, procs, nspawn, exitWrites, clock, mapVars,
                 loopVars, resp>>

(* ---------------------------- specification ---------------------------- *)
Next ==
  \/ Lookup
  \/ ResolveServerRun
  \/ RepairEntrypoint
  \/ RuntimeGate
  \/ EnsureServerVenv
  \/ SpawnFirst
  \/ RecordCmd
  \/ RecordStart
  \/ Poll
  \/ FastFailCheck
  \/ SurvivedFastFail
  \/ GraceCheck
  \/ RetryWithNewerPython
  \/ RetryResult
  \/ \E p \in Procs : ProcWrite(p)
  \/ \E p \in Procs : ProcExit(p)
  \/ \E p \in Procs : MonitorWait(p)
  \/ \E p \in Procs : MonitorRecord(p)
  \/ \E p \in Procs : MonitorReadStart(p)
  \/ \E p \in Procs : MonitorFooter(p)

Spec == Init /\ [][Next]_vars

\* The steps of the request thread.  Each is a stretch of straight-line code of
\* server_control between two sleeps; none blocks on a child process.
RequestNext ==
  \/ Lookup
  \/ ResolveServerRun
  \/ RepairEntrypoint
  \/ RuntimeGate
  \/ EnsureServerVenv
  \/ SpawnFirst
  \/ RecordCmd
  \/ RecordStart
  \/ Poll
  \/ FastFailCheck
  \/ SurvivedFastFail
  \/ GraceCheck
  \/ RetryWithNewerPython
  \/ RetryResult

\* The same program with the request thread scheduled: the handler thread runs
\* until it returns (its sleeps are timed, lines 2197 and 2253).  Nothing is
\* assumed about the children or the monitor threads.
\* One of the initial states of Spec: the PATH on which both the runtime gate
\* and the retry find a newer interpreter, a session logger, a legacy entrypoint.
InitLive ==
  /\ onPath = PathMid
  /\ hasLogger = TRUE
  /\ entrypoint = "legacy"
  /\ RequestIdle
  /\ ToolsIdle

SpecLive == InitLive /\ [][Next]_vars /\ WF_vars(RequestNext)

(* ======================== runtime_manager.py =========================== *)
requestVars == <<pc, planVars, procVars, files, clock, mapVars, loopVars, resp>>

\* The launch side at rest, for the specifications of single operations.
LaunchIdle ==
  /\ hasLogger = FALSE
  /\ entrypoint = "stub"
  /\ RequestIdle

(* ----------------------- _safe_extract_tar_gz -------------------------- *)
MemberCap == 50000

\* Paths are sequences of segments from the filesystem root.
Dest == <<"tmp", "extract">>

\* Member names as the segments between "/" (a leading "" is a leading "/").
MemberNames ==
  { <<"ok">>,
    <<"a", "f">>,
    <<"", "etc", "x">>,
    <<"..", "pwned">>,
    <<"..", "extract", "in">>,
    <<"b", "..", "x">>,
    <<"a", "..", "..", "x">> }

Members ==
  { [name |-> n, type |-> "file"] : n \in MemberNames }
    \cup { [name |-> <<"lnk">>, type |-> t] : t \in {"sym", "lnk"} }

\* Archives: the members listed, followed by `more` regular files "bulk/<i>".
RECURSIVE SeqsUpTo(_, _)
SeqsUpTo(S, n) ==
  IF n = 0 THEN {<<>>}
  ELSE LET shorter == SeqsUpTo(S, n - 1) IN
       shorter \cup {Append(q, x) : q \in {r \in shorter : Len(r) = n - 1}, x \in S}

Archives == [members : SeqsUpTo(Members, MaxMembers), more : {0, MemberCap - 1}]

MemberCount(ar) == Len(ar.members) + ar.more

Parent(path) == IF path = <<>> THEN path ELSE SubSeq(path, 1, Len(path) - 1)

\* (base / name).resolve(), no symbolic links on the way.
RECURSIVE Resolve(_, _, _)
Resolve(base, name, i) ==
  IF i > Len(name) THEN base
  ELSE IF name[i] = ".." THEN Resolve(Parent(base), name, i + 1)
  ELSE IF name[i] \in {"", "."} THEN Resolve(base, name, i + 1)
  ELSE Resolve(Append(base, name[i]), name, i + 1)

\* target == dest_dir or str(target).startswith(str(dest_dir) + os.sep)
Under(path, root) == Len(path) >= Len(root) /\ SubSeq(path, 1, Len(root)) = root

\* The check of one member (lines 123-137): "" when it passes.
MemberError(m) ==
  IF Len(m.name) > 0 /\ m.name[1] = "" THEN "absolute"
  ELSE IF ~Under(Resolve(Dest, m.name, 1), Dest) THEN "outside"
  ELSE IF m.type \in {"sym", "lnk"} THEN "link"
  ELSE ""

\* A directory exists: created by the extraction, or an ancestor of dest_dir.
DirExists(path, made) == path \in made \/ Under(Dest, path)

\* TarFile.extract of one regular file: os.makedirs of the directories of its
\* path, which fails on a ".." that follows a directory it has just created,
\* then the write of the file.
RECURSIVE ExtractMember(_, _, _, _, _)
ExtractMember(name, i, cur, fresh, made) ==
  IF i = Len(name) THEN [ok |-> TRUE, made |-> made \cup {Resolve(cur, <<name[i]>>, 1)}]
  ELSE IF name[i] = ".." THEN
    IF fresh THEN [ok |-> FALSE, made |-> made]
    ELSE ExtractMember(name, i + 1, Parent(cur), FALSE, made)
  ELSE LET nxt == Append(cur, name[i]) IN
    IF DirExists(nxt, made) THEN ExtractMember(name, i + 1, nxt, FALSE, made)
    ELSE ExtractMember(name, i + 1, nxt, TRUE, made \cup {nxt})

\* TarFile.extractall: the members in archive order, up to the first that fails.
RECURSIVE ExtractAll(_, _, _)
ExtractAll(ar, i, made) ==
  IF i > Len(ar.members)
  THEN [ok |-> TRUE,
        made |-> IF ar.more > 0 THEN made \cup {Dest \o <<"bulk">>} ELSE made]
  ELSE LET r == ExtractMember(ar.members[i].name, 1, Dest, FALSE, made) IN
       IF r.ok THEN ExtractAll(ar, i + 1, r.made) ELSE r

\* Lines 122-139, for an archive within the cap.
CheckAllThenExtract(ar) ==
  IF \E i \in 1..Len(ar.members) : MemberError(ar.members[i]) # ""
  THEN [ok |-> FALSE, made |-> {}]
  ELSE ExtractAll(ar, 1, {})

\* _safe_extract_tar_gz(tf, dest_dir)
SafeExtractTarGz ==
  /\ extract_result = ""
  /\ LET r == IF MemberCount(archive) > MemberCap
              THEN [ok |-> FALSE, made |-> {}]
              ELSE CheckAllThenExtract(archive)
     IN /\ extract_result' = IF r.ok THEN "ok" ELSE "raised"
        /\ disk' = r.made
  /\ UNCHANGED <<archive, runtimeVars, resolveVars, findVars, venvVars, onPath, hasLogger,
                 requestVars>>

InitExtract ==
  /\ onPath = PathOld
  /\ LaunchIdle
  /\ RuntimeIdle
  /\ ResolveIdle
  /\ FindIdle
  /\ VenvIdle
  /\ archive \in Archives
  /\ disk = {}
  /\ extract_result = ""

NextExtract == SafeExtractTarGz

SpecExtract == InitExtract /\ [][NextExtract]_vars

(* ---------------- list / choose_managed_python_at_least ---------------- *)
\* sorted(root.iterdir()): the directory names in string order.
NameOrder == <<"3.11.8", "3.12", "3.12.1", "3.9.18">>

\* list_managed_pythons: the directories that hold bin/python3.
ListManagedPythons ==
  SelectSeq(NameOrder, LAMBDA v : home[v].dir /\ home[v].link)

ChooseMins == { <<3, 10>>, <<3, 12>>, <<3, 13>> }

\* A runtime directory as found on disk: nothing, a directory without
\* bin/python3, or an installed runtime.
DirStates == { Absent,
               [dir |-> TRUE, payload |-> FALSE, link |-> FALSE, meta |-> FALSE],
               [dir |-> TRUE, payload |-> TRUE,  link |-> TRUE,  meta |-> TRUE] }

\* choose_managed_python_at_least(min_major, min_minor)
Choose ==
  /\ chosen = NotChosen
  /\ chosen' = ChooseManagedPythonAtLeast(ListManagedPythons, choose_min)
  /\ UNCHANGED <<home, ensure_ret, choose_min, extractVars, resolveVars, findVars, venvVars,
                 onPath, hasLogger, requestVars>>

InitChoose ==
  /\ onPath = PathOld
  /\ LaunchIdle
  /\ ExtractIdle
  /\ ResolveIdle
  /\ FindIdle
  /\ VenvIdle
  /\ home \in [RuntimeNames -> DirStates]
  /\ ensure_ret = NoCall
  /\ choose_min \in ChooseMins
  /\ chosen = NotChosen

NextChoose == Choose

SpecChoose == InitChoose /\ [][NextChoose]_vars

(* ------------------------ ensure_managed_python ------------------------ *)
EnsureVersions == {"3.11.8", "3.12"}

\* The steps of ensure_managed_python that may raise, in order.
EnsureSteps == <<"resolve", "download", "extract", "find", "move", "link", "meta">>
StepNo(step) == CHOOSE i \in 1..Len(EnsureSteps) : EnsureSteps[i] = step
FailPoints == {EnsureSteps[i] : i \in 1..Len(EnsureSteps)} \cup {"none"}

\* Step k was completed by a run that failed at `failed` ("none": ran to the end).
Passed(step, failed) == failed = "none" \/ StepNo(step) < StepNo(failed)
Reached(step, failed) == failed = "none" \/ StepNo(step) <= StepNo(failed)

\* Variant: a runtime counts as installed only with its metadata record.
AlreadyInstalledWithMeta(version, force) ==
  home[version].link /\ home[version].meta /\ ~force

\* Line 264: python_link.exists() and not force
AlreadyInstalled(version, force) == home[version].link /\ ~force

\* ensure_managed_python(version, url=..., force=...), raising at step `failed`.
EnsureManagedPython(version, url, force, failed) ==
  /\ (url => failed # "resolve")
  /\ IF AlreadyInstalled(version, force) THEN
       /\ ensure_ret' = [version |-> version, url |-> url, force |-> force,
                         outcome |-> "returned", failed |-> "none",
                         python |-> ManagedExe(version), network |-> 0]
       /\ UNCHANGED home
     ELSE
       \* lines 267-270 leave an empty directory; then each completed step
       /\ home' = [home EXCEPT ![version] =
                     [dir     |-> TRUE,
                      payload |-> Reached("move", failed),
                      link    |-> Passed("link", failed),
                      meta    |-> Passed("meta", failed)]]
       /\ ensure_ret' = [version |-> version, url |-> url, force |-> force,
                         outcome |-> IF failed = "none" THEN "returned" ELSE "raised",
                         failed |-> failed,
                         python |-> IF failed = "none" THEN ManagedExe(version) ELSE NoWord,
                         network |-> (IF url THEN 0 ELSE 1)
                                       + (IF Reached("download", failed) THEN 1 ELSE 0)]
  /\ UNCHANGED <<choose_min, chosen, extractVars, resolveVars, findVars, venvVars, onPath,
                 hasLogger, requestVars>>

InitEnsure ==
  /\ onPath = PathOld
  /\ LaunchIdle
  /\ ExtractIdle
  /\ RuntimeIdle
  /\ ResolveIdle
  /\ FindIdle
  /\ VenvIdle

NextEnsure ==
  \E version \in EnsureVersions, url \in BOOLEAN, force \in BOOLEAN, failed \in FailPoints :
    EnsureManagedPython(version, url, force, failed)

SpecEnsure == InitEnsure /\ [][NextEnsure]_vars

(* -------------------- resolve_standalone_python_url -------------------- *)
\* _indygreg_platform_matchers on an Apple-silicon host.
ArchToken == "aarch64"
OsToken   == "apple-darwin"

\* Asset names "cpython-<version>+<date>-<arch>-<os>[-<tag>...]<ext>", by their parts.
AssetVersions == {"3.11.1", "3.11.10"}
AssetTags     == { {}, {"install_only"}, {"pgo"}, {"lto"} }
Assets ==
  [version : AssetVersions, arch : {ArchToken}, os : {OsToken, "unknown-linux"},
   ext : {".tar.gz", ".tar.zst"}, tags : AssetTags]

Indexes == SeqsUpTo(Assets, MaxAssets)

\* want in name, want = "cpython-<version>": a substring test.
WantInName(version, asset) ==
  \/ asset.version = version
  \/ (version = "3.11.1" /\ asset.version = "3.11.10")

\* Lines 87-93.
Score(asset) ==
  (IF "install_only" \in asset.tags THEN 10 ELSE 0)
    + (IF "pgo" \in asset.tags THEN 1 ELSE 0)
    + (IF "lto" \in asset.tags THEN 1 ELSE 0)

\* Lines 78-85: the asset is a candidate.
Candidate(version, asset) ==
  /\ WantInName(version, asset)
  /\ asset.os = OsToken
  /\ asset.arch = ArchToken
  /\ asset.ext = ".tar.gz"

\* Lines 70-97: the loop over the assets, keeping the first of the best score.
RECURSIVE BestFrom(_, _, _, _, _)
BestFrom(index, version, i, best, best_score) ==
  IF i > Len(index) THEN best
  ELSE IF Candidate(version, index[i]) /\ Score(index[i]) > best_score
       THEN BestFrom(index, version, i + 1, i, Score(index[i]))
       ELSE BestFrom(index, version, i + 1, best, best_score)

\* resolve_standalone_python_url(version), the release index fetched.
ResolveStandalonePythonUrl ==
  /\ resolved = NoUrl
  /\ LET best == BestFrom(assets, want_version, 1, 0, -1) IN
     resolved' = IF best = 0 THEN [state |-> "raised", asset |-> 0]
                 ELSE [state |-> "url", asset |-> best]
  /\ UNCHANGED <<assets, want_version, extractVars, runtimeVars, findVars, venvVars, onPath,
                 hasLogger, requestVars>>

InitResolve ==
  /\ onPath = PathOld
  /\ LaunchIdle
  /\ ExtractIdle
  /\ RuntimeIdle
  /\ FindIdle
  /\ VenvIdle
  /\ assets \in Indexes
  /\ want_version \in AssetVersions
  /\ resolved = NoUrl

NextResolve == ResolveStandalonePythonUrl

SpecResolve == InitResolve /\ [][NextResolve]_vars

(* ======================= helpers of gui_bridge.py ====================== *)
(* ----------------------- _find_python_at_least ------------------------- *)
\* python3 is the only interpreter on PATH, and it is a 3.11.
PathNew == [n \in Names |-> IF n = "python3" THEN <<3, 11, 8>> ELSE NoVer]
\* python3 and python3.12 both report 3.12.1.
PathTwo == [n \in Names |-> IF n \in {"python3", "python3.12"} THEN <<3, 12, 1>> ELSE NoVer]
FindWorlds == PathWorlds \cup {PathNew, PathTwo}

FindMins == { <<3, 9>>, <<3, 10>>, <<3, 12>> }

\* argv[0] as a launch names it: a bare name, an absolute path, the venv's
\* interpreter; or no exclusion.
Excludes == {NoWord, Bare("python3"), UsrBin("python3"), Bare("python3.11"),
             UsrBin("python3.11"), VenvPython}

Find ==
  /\ find_ret = Pending
  /\ find_ret' = FindPythonAtLeast(find_min, find_exclude)
  /\ UNCHANGED <<find_min, find_exclude, extractVars, runtimeVars, resolveVars, venvVars,
                 onPath, hasLogger, requestVars>>

InitFind ==
  /\ onPath \in FindWorlds
  /\ LaunchIdle
  /\ ExtractIdle
  /\ RuntimeIdle
  /\ ResolveIdle
  /\ VenvIdle
  /\ find_min \in FindMins
  /\ find_exclude \in Excludes
  /\ find_ret = Pending

NextFind == Find

SpecFind == InitFind /\ [][NextFind]_vars

(* ------------------------- _ensure_server_venv ------------------------- *)
\* What a call meets: whether .venv/bin/python exists, the exit codes of
\* "python -m venv" and of "pip install -e .", and the step that raises
\* (open of the setup log, a subprocess.run that times out or cannot start).
VenvCalls ==
  [exists : BOOLEAN, create_rc : {0, 1, 2}, pip_rc : {0, 1, 2},
   raises : {"", "open", "create", "pip"}]

\* venv_py.exists() when the function returns.
VenvExistsAfter(call) ==
  call.exists \/ (call.raises \notin {"open", "create"} /\ call.create_rc = 0)

\* _ensure_server_venv(server_dir, base_python, log_dir)
EnsureServerVenvReturn(call) ==
  LET venv_py == IF VenvExistsAfter(call) THEN VenvPython ELSE NoWord IN
  IF call.raises = "open" THEN [python |-> venv_py, setup_log |-> TRUE]
  ELSE IF ~call.exists /\ call.raises = "create" THEN [python |-> venv_py, setup_log |-> TRUE]
  ELSE IF ~call.exists /\ call.create_rc # 0 THEN [python |-> NoWord, setup_log |-> TRUE]
  ELSE IF call.raises = "pip" THEN [python |-> venv_py, setup_log |-> TRUE]
  ELSE IF call.pip_rc # 0 THEN [python |-> VenvPython, setup_log |-> TRUE]
  ELSE [python |-> VenvPython, setup_log |-> TRUE]

SetupVenv ==
  /\ venv_ret = NoVenvRet
  /\ venv_ret' = EnsureServerVenvReturn(venv_call)
  /\ UNCHANGED <<venv_call, extractVars, runtimeVars, resolveVars, findVars, onPath,
                 hasLogger, requestVars>>

InitVenv ==
  /\ onPath = PathOld
  /\ LaunchIdle
  /\ ExtractIdle
  /\ RuntimeIdle
  /\ ResolveIdle
  /\ FindIdle
  /\ venv_call \in VenvCalls
  /\ venv_ret = NoVenvRet

NextVenv == SetupVenv

SpecVenv == InitVenv /\ [][NextVenv]_vars

(* ------------------------------- claims -------------------------------- *)
min_py == MinPythonFromSpec(requires)
RetryFloor == <<RetryFloorMajor, RetryFloorMinor>>
Spawned(p) == procs[p].st # "none"

\* C1: with a declared minimum version, every process the launch spawns has an
\* argv[0] whose measured version is at least the declared minimum.
C1_SpawnsSatisfyMinimum ==
  \A p \in Procs :
    (Spawned(p) /\ min_py # NoMin) => Satisfies(procs[p].argv[1], min_py)

\* C2: when no interpreter known at the gate satisfies the declared minimum, no
\* process is spawned, no monitor is started, and the response is the blocked
\* outcome with the probed version of argv[0] and the constraint string.
C2_UnsatisfiableIsBlocked ==
  noneSat =>
    /\ nspawn = 0
    /\ \A p \in Procs : mon[p] = "none"
    /\ (pc = "done" =>
          /\ resp.status = 409
          /\ resp.python = PythonVersionTuple(argv[1])
          /\ resp.python # NoVer
          /\ resp.requires_python = requires)

\* The request thread saw the first process crash: exited at a poll of the
\* fast-fail window, or a traceback in its log after the grace period.
CrashObserved == rc # NoRc \/ Tb \in tail

\* A retry process was spawned and its fast-fail window ran out with it alive.
RetrySurvived ==
  /\ proc2 # 0
  /\ Spawned(proc2)
  /\ stage # "first"
  /\ rc2 = NoRc
  /\ polls = FastFailPolls

\* C3: a start request that observed a crash answers success only if a retry
\* process was spawned and survived its own fast-fail window.
C3_NoSuccessOnCrash ==
  (pc = "done" /\ action = "start" /\ resp.success /\ CrashObserved) => RetrySurvived

\* C4: a start request spawns at most two processes.
C4_AtMostTwoSpawns == nspawn <= 2

C4_Witness ==
  /\ pc = "done"
  /\ nspawn = 2
  /\ stage = "gr"
  /\ rc2 # NoRc
  /\ ~resp.success

\* The recognized signature, as section 4.6 of the specification describes it.
HasSignature(out) == {Operand, NoneType} \subseteq out

\* C5: when the first log shows the signature and a newer interpreter is
\* available, there are exactly two spawns, the second with the fallback as
\* argv[0], and the response carries the retry provenance with the first log path.
C5_SignatureRetriesOnce ==
  (pc = "done" /\ HasSignature(tail)
     /\ FindPythonAtLeast(RetryFloor, argv[1]) # NoWord) =>
    /\ nspawn = 2
    /\ procs[2].argv[1] = FindPythonAtLeast(RetryFloor, argv[1])
    /\ resp.retry
    /\ resp.first_log_path = log_path

\* C6: when the first process crashes and its log, as read, does not show the signature,
\* there is exactly one spawn and the response is a failure.
C6_NoRetryWithoutSignature ==
  (pc = "done" /\ CrashObserved /\ ~HasSignature(tail)) =>
    /\ nspawn = 1
    /\ resp.status = 500
    /\ ~resp.success

C6_Witness ==
  /\ pc = "done"
  /\ rc = NoRc
  /\ tail = {Tb, Operand}
  /\ nspawn = 1
  /\ resp.status = 500

\* C7: when the process exits with code c in the fast-fail window and no retry
\* is made, the response is a failure with returncode c and the log of that
\* spawn, whose header holds the resolved command.
C7_FastFailReported ==
  (pc = "done" /\ rc # NoRc /\ nspawn = 1) =>
    /\ ~resp.success
    /\ resp.status = 500
    /\ resp.returncode = rc
    /\ resp.log_path = log_path
    /\ files[log_path].kind = "start"
    /\ files[log_path].cmd = argv

\* A start command that is empty or holds nothing but whitespace.
NoArgv(c) == \A i \in 1..Len(c) : c[i] = Blank

\* C8: a start request whose start command is empty, or splits into an empty
\* argv, spawns nothing, writes no log, starts no monitor and is answered with
\* a resolution error.
C8_NoCommandNoSpawn ==
  (found /\ action = "start" /\ NoArgv(cmd)) =>
    /\ nspawn = 0
    /\ \A p \in Procs : mon[p] = "none"
    /\ \A f \in DOMAIN files : files[f] = NoFile
    /\ pc \in {"resolve", "done"}
    /\ (pc = "done" => resp.status = 400 /\ ~resp.success)

C8_Witness ==
  /\ pc = "done"
  /\ found
  /\ action = "start"
  /\ cmd = <<Blank>>
  /\ resp.status = 400

InAccess ==
  (IF pc \in {"rec_cmd", "rec_start"} THEN {0} ELSE {})
    \cup {p \in Procs : mon[p] \in {"exit_rec", "start_read"}}

\* C10: no two threads are inside an access to the shared per-server maps at
\* the same time.
C10_MapsMutuallyExclusive == Cardinality(InAccess) <= 1

\* C11: each spawn attempt has a launch log of its own that is only appended
\* to: the log of every spawned process still begins with the header written
\* when that process was spawned, and no two processes share a log.
C11_OneLogPerAttempt ==
  \A p \in Procs :
    Spawned(p) =>
      /\ files[procs[p].log].hdr = p
      /\ \A q \in Procs : (Spawned(q) /\ q # p) => procs[q].log # procs[p].log

\* C18: with a declared minimum, an interpreter whose version probe yields
\* none is never the argv[0] of a spawned process.
C18_UnknownIsIncompatible ==
  \A p \in Procs :
    (Spawned(p) /\ min_py # NoMin) => PythonVersionTuple(procs[p].argv[1]) # NoVer

\* C13: when the extractor raises, the extraction has created nothing.
C13_RaiseLeavesNothing == extract_result = "raised" => disk = {}

\* What the claim lists for a member: an absolute path, a path that begins
\* with a parent-directory segment, a path that resolves outside the
\* destination root, a symbolic or hard link.
Offending(m) ==
  \/ (Len(m.name) > 0 /\ m.name[1] \in {"", ".."})
  \/ ~Under(Resolve(Dest, m.name, 1), Dest)
  \/ m.type # "file"

C12_FailedEnsureNotListed ==
  ensure_ret.outcome = "raised" =>
    /\ ~home[ensure_ret.version].link
    /\ \A i \in 1..Len(ListManagedPythons) : ListManagedPythons[i] # ensure_ret.version
    /\ \A m \in ChooseMins :
         ChooseManagedPythonAtLeast(ListManagedPythons, m) # ensure_ret.version

\* C15: a call of ensure without force for a version whose interpreter exists
\* returns that interpreter's path, makes no network call and leaves the
\* runtime home as it was; and a call without force that follows a successful
\* call for the same version makes no network call and returns the same path.
C15_EnsureIdempotent ==
  [][/\ (~ensure_ret'.force /\ home[ensure_ret'.version].link) =>
          /\ home' = home
          /\ ensure_ret'.outcome = "returned"
          /\ ensure_ret'.network = 0
          /\ ensure_ret'.python = ManagedExe(ensure_ret'.version)
     /\ (ensure_ret.outcome = "returned" /\ ~ensure_ret'.force
           /\ ensure_ret'.version = ensure_ret.version) =>
          /\ ensure_ret'.network = 0
          /\ ensure_ret'.python = ensure_ret.python]_vars

C15_Witness ==
  /\ ensure_ret.outcome = "returned"
  /\ ~ensure_ret.force
  /\ ensure_ret.network = 0
  /\ home[ensure_ret.version].meta

\* The installed runtimes, and the version each one's interpreter reports.
Installed == {v \in RuntimeNames : home[v].dir /\ home[v].link}
Probed(v) == PythonVersionTuple(ManagedExe(v))
Ver3Less(a, b) ==
  \/ a[1] < b[1]
  \/ (a[1] = b[1] /\ a[2] < b[2])
  \/ (a[1] = b[1] /\ a[2] = b[2] /\ a[3] < b[3])
Qualifying ==
  {v \in Installed : Probed(v) # NoVer /\ ~VerLess2(Probed(v), choose_min)}

\* C16: choose_at_least returns none exactly when no installed runtime has a
\* probed version at or above the minimum, and otherwise an installed runtime
\* whose probed version is the greatest among those that have.
C16_ChoosesHighest ==
  chosen # NotChosen =>
    /\ (chosen = NoPin <=> Qualifying = {})
    /\ (chosen # NoPin =>
          /\ chosen \in Qualifying
          /\ \A w \in Qualifying : ~Ver3Less(Probed(chosen), Probed(w)))

\* Two words name the same interpreter.
SameInterpreter(w1, w2) == Executable(w1) # NoWord /\ Executable(w1) = Executable(w2)

\* A PATH candidate that satisfies the minimum and is not the excluded interpreter.
Eligible(i) ==
  /\ Which(Candidates[i]) # NoWord
  /\ Satisfies(Which(Candidates[i]), find_min)
  /\ ~SameInterpreter(Which(Candidates[i]), find_exclude)

\* C17: the search returns the first candidate, in the fixed order, whose
\* probed version satisfies the minimum and which is not the excluded
\* interpreter, or none; it never returns the excluded interpreter, however
\* that interpreter is named.
C17_FindSkipsExcluded ==
  find_ret # Pending =>
    /\ (find_ret = NoWord <=> \A i \in 1..Len(Candidates) : ~Eligible(i))
    /\ (find_ret # NoWord =>
          /\ ~SameInterpreter(find_ret, find_exclude)
          /\ \E i \in 1..Len(Candidates) :
               /\ Eligible(i)
               /\ find_ret = Which(Candidates[i])
               /\ \A j \in 1..(i - 1) : ~Eligible(j))

\* The steps a call ran to an exit code, and those that exited non-zero.
RanCreate(call) == ~call.exists /\ call.raises \notin {"open", "create"}
RanPip(call) ==
  /\ call.raises \notin {"open", "pip"}
  /\ (call.exists \/ (call.raises # "create" /\ call.create_rc = 0))
StepFailed(call) ==
  \/ (RanCreate(call) /\ call.create_rc # 0)
  \/ (RanPip(call) /\ call.pip_rc # 0)

\* C19: ensure_environment returns none as the interpreter whenever the
\* creation or the dependency install exits non-zero, and still returns the
\* setup log path.
C19_FailedSetupReturnsNone ==
  (venv_ret # NoVenvRet /\ StepFailed(venv_call)) =>
    /\ venv_ret.python = NoWord
    /\ venv_ret.setup_log

\* What the claim requires of an asset: the target version, the OS and
\* architecture tokens, and the archive suffix of the install-only builds.
Matches(asset) ==
  /\ asset.version = want_version
  /\ asset.os = OsToken
  /\ asset.arch = ArchToken
  /\ asset.ext = ".tar.gz"

\* install-only > profile-guided > link-time-optimized
Preference(asset) ==
  IF "install_only" \in asset.tags THEN 3
  ELSE IF "pgo" \in asset.tags THEN 2
  ELSE IF "lto" \in asset.tags THEN 1
  ELSE 0

\* C20: URL resolution raises exactly when no asset matches, and otherwise
\* returns the URL of a matching asset that no matching asset is preferred to.
C20_ResolvesInstallOnly ==
  resolved # NoUrl =>
    LET matching == {i \in 1..Len(assets) : Matches(assets[i])} IN
    /\ (resolved.state = "raised" <=> matching = {})
    /\ (resolved.state = "url" =>
          /\ resolved.asset \in matching
          /\ \A j \in matching : Preference(assets[resolved.asset]) >= Preference(assets[j]))

\* C21: every finished start request has one outcome with the status code of
\* its class: 404 server not found, 400 no command, 409 blocked by the runtime
\* gate before any spawn, 500 when a crash was observed and no retry survived,
\* 200 for success; and every response other than 200 names its cause.
C21_StatusOfOutcomeClass ==
  (pc = "done" /\ action = "start") =>
    /\ resp.status \in {200, 400, 404, 409, 500}
    /\ (resp.success <=> resp.status = 200)
    /\ (~found => resp.status = 404)
    /\ ((found /\ NoArgv(cmd)) => resp.status = 400)
    /\ (resp.status = 409 => (min_py # NoMin /\ nspawn = 0))
    /\ ((CrashObserved /\ ~RetrySurvived) => resp.status = 500)
    /\ (resp.status # 200 => resp.error # "")

\* The process a success response reports as started: the retry process when
\* the response carries the retry provenance, the first process otherwise.
Reported == IF resp.retry THEN proc2 ELSE proc

\* C22: for every success response of a start request, resolved_cmd is the argv
\* of the spawn of the process reported as started, and log_path is the log of
\* that spawn, whose header names the launch and the same command.
C22_ResponseMatchesSpawn ==
  (pc = "done" /\ action = "start" /\ resp.success) =>
    /\ Reported # 0
    /\ procs[Reported].argv = resp.resolved_cmd
    /\ procs[Reported].log = resp.log_path
    /\ files[resp.log_path].kind = "start"
    /\ files[resp.log_path].cmd = resp.resolved_cmd

\* C23: a start request that ends without success (blocked, failed, or failed
\* after a retry) leaves the last-launch command and start time of the server
\* id as they were before the request.
C23_FailedStartLeavesLastLaunch ==
  (pc = "done" /\ action = "start" /\ ~resp.success) =>
    /\ last_server_cmd = <<>>
    /\ last_server_start = NoLog

\* C24: the entrypoint repair runs only after the runtime gate has passed: a
\* start request answered with the blocked outcome has not rewritten the
\* server's entrypoint file.
C24_BlockedLeavesEntrypoint ==
  (pc = "done" /\ resp.status = 409) => entrypoint # "repaired"

\* C25: every start request terminates with a response of one of the terminal
\* states, whatever the children do: the request thread makes at most 12 polls
\* in each fast-fail loop, at most one grace-period log inspection and at most
\* two spawns, and it reaches its return without any child having to exit.
C25_RequestTerminates ==
  /\ <>(pc = "done")
  /\ [](polls <= FastFailPolls /\ inspections <= 1 /\ nspawn <= 2)
  /\ [](pc = "done" => resp.status \in {200, 400, 404, 409, 500})

\* A request that used everything it may: two full fast-fail loops, the
\* grace-period inspection and two spawns, with both children still running.
C25_Witness ==
  /\ pc = "done"
  /\ action = "start"
  /\ nspawn = 2
  /\ polls = FastFailPolls
  /\ inspections = 1
  /\ procs[1].st = "running"
  /\ procs[2].st = "running"

\* C26: when a start request returns, no process it spawned is still running
\* except the one a success response reports as started.
C26_NoStrayChild ==
  (pc = "done" /\ action = "start") =>
    \A p \in Procs :
      procs[p].st = "running" => (resp.success /\ p = Reported)

\* C27: the response does not depend on whether a session logger is configured;
\* in particular a request whose retry process was seen exited is answered with
\* the retry provenance: the retry process's return code, log path and command.
C27_FailedRetryReported ==
  (pc = "done" /\ stage # "first" /\ proc2 # 0 /\ rc2 # NoRc) =>
    /\ ~resp.success
    /\ resp.retry
    /\ resp.returncode = rc2
    /\ resp.log_path = log_path2
    /\ resp.resolved_cmd = retry_argv

\* C28: once every process spawned for the server id has exited and its monitor
\* has finished, the last-exit record describes the most recently spawned
\* process: no monitor of an earlier process has overwritten it.
C28_LastExitIsLatest ==
  (nspawn > 0 /\ \A p \in Procs : Spawned(p) => mon[p] = "done") =>
    last_server_exit = [returncode |-> procs[nspawn].rc, cmd |-> procs[nspawn].argv,
                        log_path |-> procs[nspawn].log]

\* get_status in degraded mode (lines 820-825): without process inspection a
\* server is online when it has a last-launch command and no exit record.
DegradedOnline == last_server_cmd # <<>> /\ last_server_exit = NoExit

\* C29: in degraded status mode, a server whose start request answered success
\* and whose reported process has not exited is reported online, whatever exit
\* record an earlier process of the same id has left.
C29_RunningIsOnline ==
  (pc = "done" /\ action = "start" /\ resp.success /\ Reported # 0
     /\ procs[Reported].st = "running") => DegradedOnline

\* C30: a call of ensure with force that raises leaves a runtime that was
\* installed for the version intact: the interpreter that existed at the
\* conventional path before the call still exists and points to a complete
\* payload.
C30_FailedForceKeepsRuntime ==
  [][(/\ ensure_ret'.force
      /\ ensure_ret'.outcome = "raised"
      /\ home[ensure_ret'.version].link
      /\ home[ensure_ret'.version].payload
      /\ home[ensure_ret'.version].meta) =>
       (/\ home'[ensure_ret'.version].link
        /\ home'[ensure_ret'.version].payload)]_vars

====
